---- MODULE Spec2Model ----
(***************************************************************************)
(* A model of the ads-extension-telemetry reporter: the module-level       *)
(* common fields, TelemetryEventImpl (the event builder), TelemetryReporter*)
(* (the factory owning the transport) and TimedAction.                     *)
(*                                                                         *)
(* JavaScript values are tagged: Str(s), Num(n), Undef, Null.  Property    *)
(* and measurement maps are objects with identity: they live in the heaps  *)
(* heapP / heapM and events refer to them by index, so that an event built *)
(* on a caller's object shares it with the caller.                         *)
(***************************************************************************)
EXTENDS Integers, Sequences, FiniteSets, TLC

VARIABLES
    userDnsDomain,       \* process.env['USERDNSDOMAIN'] at module load
    commonProperties,    \* module-level const commonProperties (an object)
    commonMeasurements,  \* module-level const commonMeasurements (an object)
    constructed,         \* TRUE once the TelemetryReporter constructor ran
    transportFailed,     \* new VsCodeTelemetryReporter(...) raised in the constructor
    telemetryReporter,   \* TelemetryReporter._telemetryReporter
    heapP,               \* property-map objects; object 1 is the caller's
    heapM,               \* measurement-map objects; object 1 is the caller's
    callerP0,            \* contents of the caller's property map before any call
    callerM0,            \* contents of the caller's measurement map before any call
    events,              \* the TelemetryEventImpl objects created so far
    timed,               \* the TimedAction objects created so far
    now,                 \* Date.now() at the latest reading of the clock
    sentCount,           \* number of sendTelemetryEvent calls made on the transport
    lastSent,            \* arguments of the latest sendTelemetryEvent call
    disposeCalls,        \* number of reporter.dispose() calls
    transportDisposed,   \* number of dispose() calls made on the transport
    log,                 \* console.error lines (by kind), oldest first
    ops,                 \* number of public calls made after construction
    last                 \* the latest public call: what it was and how it ended

vars == <<userDnsDomain, commonProperties, commonMeasurements, constructed,
          transportFailed, telemetryReporter, heapP, heapM, callerP0, callerM0,
          events, timed, now, sentCount, lastSent, disposeCalls, transportDisposed,
          log, ops, last>>

\* the module-level state and the caller's record of its own maps
fixed == <<userDnsDomain, callerP0, callerM0>>
commonFields == <<commonProperties, commonMeasurements>>

\* the reporter once constructed
reporterState == <<constructed, transportFailed, telemetryReporter>>

\* the transport and the console
outside == <<sentCount, lastSent, log>>

-----------------------------------------------------------------------------
(* Bounds *)

\* public calls made after construction
MaxOps == 3
\* events and timed actions the caller holds at once
MaxBuilders == 2
\* milliseconds that pass between two readings of the clock
MaxDelay == 1

-----------------------------------------------------------------------------
(* JavaScript values *)

Str(s) == [str |-> s]
Num(n) == [num |-> n]
Undef == [undef |-> TRUE]
Null == [null |-> TRUE]

IsStr(v) == DOMAIN v = {"str"}
IsNum(v) == DOMAIN v = {"num"}

EmptyMap == <<>>

\* Object.assign(target, source): every own key of source is written to
\* target, a key whose value is undefined included; a source that is
\* undefined or null is skipped.
ObjectAssign(target, source) ==
    IF source = Undef \/ source = Null
    THEN target
    ELSE [k \in DOMAIN target \cup DOMAIN source |->
             IF k \in DOMAIN source THEN source[k] ELSE target[k]]

-----------------------------------------------------------------------------
(* Strings *)

UpperCaseLetters == "ABCDEFGHIJKLMNOPQRSTUVWXYZ"
LowerCaseLetters == "abcdefghijklmnopqrstuvwxyz"

CharAt(s, i) == SubSeq(s, i, i)

LowerOf(c) ==
    IF \E i \in 1..26 : CharAt(UpperCaseLetters, i) = c
    THEN CharAt(LowerCaseLetters, CHOOSE i \in 1..26 : CharAt(UpperCaseLetters, i) = c)
    ELSE c

\* String.prototype.toLowerCase
RECURSIVE toLowerCase(_)
toLowerCase(s) ==
    IF s = "" THEN "" ELSE LowerOf(CharAt(s, 1)) \o toLowerCase(SubSeq(s, 2, Len(s)))

-----------------------------------------------------------------------------
(* The module-level common fields *)

msftInternalDomains ==
    { "redmond.corp.microsoft.com",
      "northamerica.corp.microsoft.com",
      "fareast.corp.microsoft.com",
      "ntdev.corp.microsoft.com",
      "wingroup.corp.microsoft.com",
      "southpacific.corp.microsoft.com",
      "wingroup.windeploy.ntdev.microsoft.com",
      "ddnet.microsoft.com",
      "europe.corp.microsoft.com" }

\* isMsftInternal() comparing the domain as given, without toLowerCase()
isMsftInternalCaseSensitive(dnsDomain) ==
    IF dnsDomain = Undef \/ dnsDomain = Str("")
    THEN FALSE
    ELSE \E msftDomain \in msftInternalDomains : dnsDomain.str = msftDomain

\* isMsftInternal(), as a function of process.env['USERDNSDOMAIN']
isMsftInternal(dnsDomain) ==
    IF dnsDomain = Undef \/ dnsDomain = Str("")
    THEN FALSE
    ELSE LET domain == toLowerCase(dnsDomain.str)
         IN \E msftDomain \in msftInternalDomains : domain = msftDomain

\* the object literal assigned to commonMeasurements
InitCommonMeasurements(dnsDomain) ==
    [k \in {"common.msftInternal"} |-> IF isMsftInternal(dnsDomain) THEN Num(1) ELSE Num(0)]

\* commonProperties after the try { require('azdata') } block; azdata is
\* Undef when the module is not available (require throws), else its version
InitCommonProperties(azdataVersion) ==
    IF azdataVersion = Undef
    THEN EmptyMap
    ELSE [k \in {"common.adsversion"} |-> azdataVersion]

-----------------------------------------------------------------------------
(* Regular expressions: new RegExp(pattern, 'g') and String.replace.       *)
(* Patterns are read over letters, digits, ' ', ':', '@' (literals) and    *)
(* the metacharacters '.', '+' and '('.                                    *)

RedactionMarker == "<REDACTED: error-message>"

\* new RegExp(p) throws a SyntaxError: an unterminated group, or a
\* quantifier with nothing to repeat
RegExpThrows(p) ==
    \E i \in 1..Len(p) :
        \/ CharAt(p, i) = "("
        \/ CharAt(p, i) = "+" /\ (i = 1 \/ CharAt(p, i - 1) = "+")

\* the atoms of a valid pattern, each with its '+' quantifier if any
RECURSIVE Tokens(_)
Tokens(p) ==
    IF p = "" THEN <<>>
    ELSE IF Len(p) >= 2 /\ CharAt(p, 2) = "+"
         THEN <<[ch |-> CharAt(p, 1), plus |-> TRUE]>> \o Tokens(SubSeq(p, 3, Len(p)))
         ELSE <<[ch |-> CharAt(p, 1), plus |-> FALSE]>> \o Tokens(SubSeq(p, 2, Len(p)))

AtomMatches(ch, c) == ch = "." \/ ch = c

\* number of consecutive characters of s from pos on that atom ch matches
RECURSIVE Run(_, _, _)
Run(ch, s, pos) ==
    IF pos <= Len(s) /\ AtomMatches(ch, CharAt(s, pos))
    THEN 1 + Run(ch, s, pos + 1)
    ELSE 0

\* the position after the (greedy, backtracking) match of toks in s that
\* starts at pos, or 0 when there is none
RECURSIVE MatchAt(_, _, _)
RECURSIVE TryPlus(_, _, _, _)
MatchAt(toks, s, pos) ==
    IF toks = <<>> THEN pos
    ELSE LET t == Head(toks)
         IN IF t.plus
            THEN TryPlus(toks, s, pos, Run(t.ch, s, pos))
            ELSE IF pos <= Len(s) /\ AtomMatches(t.ch, CharAt(s, pos))
                 THEN MatchAt(Tail(toks), s, pos + 1)
                 ELSE 0

TryPlus(toks, s, pos, n) ==
    IF n < 1 THEN 0
    ELSE LET r == MatchAt(Tail(toks), s, pos + n)
         IN IF r # 0 THEN r ELSE TryPlus(toks, s, pos, n - 1)

RECURSIVE ReplaceFrom(_, _, _, _)
ReplaceFrom(s, toks, by, pos) ==
    IF pos > Len(s) THEN ""
    ELSE LET e == MatchAt(toks, s, pos)
         IN IF e # 0
            THEN by \o ReplaceFrom(s, toks, by, e)
            ELSE CharAt(s, pos) \o ReplaceFrom(s, toks, by, pos + 1)

\* s.replace(new RegExp(p, 'g'), by), for a valid non-empty p
ReplaceAll(s, p, by) == ReplaceFrom(s, Tokens(p), by, 1)

\* s has a literal occurrence of sub
Contains(s, sub) ==
    \E i \in 1..(Len(s) - Len(sub) + 1) : SubSeq(s, i, i + Len(sub) - 1) = sub

DigitString ==
    [n \in 0..9 |->
        CASE n = 0 -> "0" [] n = 1 -> "1" [] n = 2 -> "2" [] n = 3 -> "3" [] n = 4 -> "4"
          [] n = 5 -> "5" [] n = 6 -> "6" [] n = 7 -> "7" [] n = 8 -> "8" [] n = 9 -> "9"]

\* Number.prototype.toString for a non-negative integer
RECURSIVE NumToString(_)
NumToString(n) ==
    IF n < 10 THEN DigitString[n] ELSE NumToString(n \div 10) \o DigitString[n % 10]

-----------------------------------------------------------------------------
(* Inputs *)

\* the process environment when the module is loaded: process.env['USERDNSDOMAIN']
\* and azdata.version (Undef when require('azdata') throws): an extension host
\* without azdata off the corporate network, Azure Data Studio on it, a
\* machine whose variable is set but empty, and a machine in a sub-domain of
\* a listed domain
Environments ==
    { [dnsDomain |-> Undef, azdataVersion |-> Undef],
      [dnsDomain |-> Str("REDMOND.CORP.MICROSOFT.COM"), azdataVersion |-> Str("1.40")],
      [dnsDomain |-> Str(""), azdataVersion |-> Str("1.40")],
      [dnsDomain |-> Str("Sub.Ddnet.Microsoft.com"), azdataVersion |-> Undef] }

\* contents of the property / measurement objects the caller owns
CallerProperties == ("k" :> Str("a")) @@ ("common.adsversion" :> Str("mine"))
CallerMeasurements == ("n" :> Num(7)) @@ ("common.msftInternal" :> Num(7))

\* object literals the caller passes to the with* methods
AdditionalProperties == { ("k" :> Str("b")), ("common.adsversion" :> Str("own")) }
AdditionalMeasurements == { ("n" :> Num(3)), ("common.msftInternal" :> Num(9)) }

View == Str("Dialog")
Action == Str("Click")

\* (target, source, durationInMs) of createActionEvent / sendActionEvent
ActionArgs ==
    { <<Undef, Undef, Undef>>,
      <<Str("Button"), Str("Mouse"), Num(0)>>,
      <<Str("Button"), Str("Mouse"), Num(5)>> }

\* an optional string argument: omitted or given
OptionalStrings == { Undef, Str("G") }

\* an argument that is an object: one the caller owns (by reference), or a
\* fresh object literal; Caller is the object the caller owns and passes in
Ref(k) == [ref |-> k]
Caller == Ref(1)
\* an object literal { k1: v1, ... }: a new object that has each listed key
\* with its value
Lit(m) == [lit |-> [k \in DOMAIN m |-> m[k]]]
IsRef(arg) == DOMAIN arg = {"ref"}

-----------------------------------------------------------------------------
(* TelemetryEventImpl *)

\* a faulty constructor that forgets the common fields: this.properties =
\* properties || {} alone
AdoptWithoutCommon(heap, arg, common) ==
    LET id == IF IsRef(arg) THEN arg.ref ELSE Len(heap) + 1
        h1 == IF IsRef(arg) THEN heap
              ELSE Append(heap, IF arg = Undef THEN EmptyMap ELSE arg.lit)
    IN [id |-> id, heap |-> h1, common |-> common]

\* a faulty constructor that merges the other way round, the given fields
\* over the common ones: Object.assign(this.properties, commonProperties, given)
AdoptGivenOverCommon(heap, arg, common) ==
    LET id == IF IsRef(arg) THEN arg.ref ELSE Len(heap) + 1
        h1 == IF IsRef(arg) THEN heap
              ELSE Append(heap, IF arg = Undef THEN EmptyMap ELSE arg.lit)
    IN [id |-> id, heap |-> [h1 EXCEPT ![id] = ObjectAssign(common, @)],
        common |-> common]

\* a faulty constructor that merges into the wrong object, the event's fields
\* into the common ones: Object.assign(commonProperties, this.properties)
AdoptIntoCommon(heap, arg, common) ==
    LET id == IF IsRef(arg) THEN arg.ref ELSE Len(heap) + 1
        h1 == IF IsRef(arg) THEN heap
              ELSE Append(heap, IF arg = Undef THEN EmptyMap ELSE arg.lit)
    IN [id |-> id, heap |-> h1, common |-> ObjectAssign(common, h1[id])]

\* this.properties = properties || {}; Object.assign(this.properties, commonProperties)
\* (and the same for the measurements): the object the event keeps, as an
\* index into the heap, the heap after the constructor, and the common
\* object after it (Object.assign writes to its first argument only)
Adopt(heap, arg, common) ==
    LET id == IF IsRef(arg) THEN arg.ref ELSE Len(heap) + 1
        h1 == IF IsRef(arg) THEN heap
              ELSE Append(heap, IF arg = Undef THEN EmptyMap ELSE arg.lit)
    IN [id |-> id, heap |-> [h1 EXCEPT ![id] = ObjectAssign(@, common)],
        common |-> common]

\* new TelemetryEventImpl(reporter, eventName, properties, measurements)
TelemetryEventImpl(hP, hM, reporter, eventName, properties, measurements) ==
    LET p == Adopt(hP, properties, commonProperties)
        m == Adopt(hM, measurements, commonMeasurements)
    IN [heapP |-> p.heap, heapM |-> m.heap,
        commonProperties |-> p.common, commonMeasurements |-> m.common,
        ev |-> [reporter |-> reporter, eventName |-> eventName,
                properties |-> p.id, measurements |-> m.id]]

\* a faulty send() without the try/catch around sendTelemetryEvent
sendWithoutCatch(ev, hP, hM, transportThrows) ==
    IF ev.reporter = "undefined"
    THEN [calls |-> 0, raised |-> FALSE, sent |-> lastSent, logs |-> <<>>,
          threw |-> FALSE]
    ELSE [calls |-> 1,
          raised |-> transportThrows,
          sent |-> [eventName |-> ev.eventName,
                    properties |-> hP[ev.properties],
                    measurements |-> hM[ev.measurements]],
          logs |-> <<>>,
          threw |-> transportThrows]

\* a faulty send() that tries once more when the transport raises: a second
\* sendTelemetryEvent call in the catch block
sendWithRetry(ev, hP, hM, transportThrows) ==
    IF ev.reporter = "undefined"
    THEN [calls |-> 0, raised |-> FALSE, sent |-> lastSent, logs |-> <<>>,
          threw |-> FALSE]
    ELSE [calls |-> IF transportThrows THEN 2 ELSE 1,
          raised |-> transportThrows,
          sent |-> [eventName |-> ev.eventName,
                    properties |-> hP[ev.properties],
                    measurements |-> hM[ev.measurements]],
          logs |-> IF transportThrows
                   THEN <<"send">>
                   ELSE <<>>,
          threw |-> FALSE]

\* TelemetryEventImpl.send(): what it does to the transport, the console and
\* its caller. transportThrows: this sendTelemetryEvent call raises.
send(ev, hP, hM, transportThrows) ==
    IF ev.reporter = "undefined"
    THEN [calls |-> 0, raised |-> FALSE, sent |-> lastSent, logs |-> <<>>,
          threw |-> FALSE]
    ELSE [calls |-> 1,
          raised |-> transportThrows,
          sent |-> [eventName |-> ev.eventName,
                    properties |-> hP[ev.properties],
                    measurements |-> hM[ev.measurements]],
          logs |-> IF transportThrows
                   THEN <<"send">>
                   ELSE <<>>,
          threw |-> FALSE]

\* a faulty withAdditionalProperties that lets the fields the event already
\* holds win: Object.assign(this.properties, additionalProperties, this.properties)
withAdditionalPropertiesKeepingOld(props, additionalProperties) ==
    ObjectAssign(additionalProperties, props)

\* TelemetryEventImpl.withAdditionalProperties: the properties afterwards
withAdditionalProperties(props, additionalProperties) ==
    ObjectAssign(props, additionalProperties)

\* TelemetryEventImpl.withAdditionalMeasurements: the measurements afterwards
withAdditionalMeasurements(measurements, additionalMeasurements) ==
    ObjectAssign(measurements, additionalMeasurements)

\* typeof x === 'object' (null included)
TypeofObject(x) == x = Null \/ DOMAIN x = {"obj"}

\* o.field for an object o: undefined when the field is absent
Field(o, f) == IF f \in DOMAIN o.obj THEN o.obj[f] ELSE Undef

\* a ?? b
Coalesce(a, b) == IF a = Undef \/ a = Null THEN b ELSE a

\* a faulty withConnectionInfo that merges the whole input:
\* Object.assign(this.properties, connectionInfo)
withConnectionInfoBlindMerge(props, connectionInfo) ==
    IF TypeofObject(connectionInfo)
    THEN IF connectionInfo = Null
         THEN [props |-> props, logs |-> <<>>, threw |-> FALSE]
         ELSE [props |-> ObjectAssign(props, connectionInfo.obj),
               logs |-> <<>>, threw |-> FALSE]
    ELSE [props |-> props,
          logs |-> <<"invalidConnectionInfo">>,
          threw |-> FALSE]

\* TelemetryEventImpl.withConnectionInfo: the properties afterwards, the
\* console line if any, and whether it raised (a property read on null)
withConnectionInfo(props, connectionInfo) ==
    IF TypeofObject(connectionInfo)
    THEN IF connectionInfo = Null
         THEN [props |-> props, logs |-> <<>>, threw |-> TRUE]
         ELSE [props |-> ObjectAssign(props,
                            ("authenticationType" :> Field(connectionInfo, "authenticationType")) @@
                            ("providerName" :> Field(connectionInfo, "providerName"))),
               logs |-> <<>>, threw |-> FALSE]
    ELSE [props |-> props,
          logs |-> <<"invalidConnectionInfo">>,
          threw |-> FALSE]

\* a faulty withServerInfo that merges the whole input:
\* Object.assign(this.properties, serverInfo)
withServerInfoBlindMerge(props, serverInfo) ==
    IF TypeofObject(serverInfo)
    THEN IF serverInfo = Null
         THEN [props |-> props, logs |-> <<>>, threw |-> TRUE]
         ELSE [props |-> ObjectAssign(props, serverInfo.obj),
               logs |-> <<>>, threw |-> FALSE]
    ELSE [props |-> props,
          logs |-> <<"invalidServerInfo">>,
          threw |-> FALSE]

\* a faulty withServerInfo that tests the cloud flag for truth alone:
\* connectionType: serverInfo.isCloud ? 'Azure' : 'Standalone'
withServerInfoFlagByTruth(props, serverInfo) ==
    IF TypeofObject(serverInfo)
    THEN IF serverInfo = Null
         THEN [props |-> props, logs |-> <<>>, threw |-> TRUE]
         ELSE [props |-> ObjectAssign(props,
                            ("connectionType" :>
                                IF Field(serverInfo, "isCloud") = [bool |-> TRUE]
                                THEN Str("Azure") ELSE Str("Standalone")) @@
                            ("serverVersion" :> Coalesce(Field(serverInfo, "serverVersion"), Str(""))) @@
                            ("serverEdition" :> Coalesce(Field(serverInfo, "serverEdition"), Str(""))) @@
                            ("serverEngineEdition" :> Coalesce(Field(serverInfo, "engineEditionId"), Str("")))),
               logs |-> <<>>, threw |-> FALSE]
    ELSE [props |-> props,
          logs |-> <<"invalidServerInfo">>,
          threw |-> FALSE]

\* TelemetryEventImpl.withServerInfo
withServerInfo(props, serverInfo) ==
    IF TypeofObject(serverInfo)
    THEN IF serverInfo = Null
         THEN [props |-> props, logs |-> <<>>, threw |-> TRUE]
         ELSE [props |-> ObjectAssign(props,
                            ("connectionType" :>
                                IF Field(serverInfo, "isCloud") # Undef
                                THEN (IF Field(serverInfo, "isCloud") = [bool |-> TRUE]
                                      THEN Str("Azure") ELSE Str("Standalone"))
                                ELSE Str("")) @@
                            ("serverVersion" :> Coalesce(Field(serverInfo, "serverVersion"), Str(""))) @@
                            ("serverEdition" :> Coalesce(Field(serverInfo, "serverEdition"), Str(""))) @@
                            ("serverEngineEdition" :> Coalesce(Field(serverInfo, "engineEditionId"), Str("")))),
               logs |-> <<>>, threw |-> FALSE]
    ELSE [props |-> props,
          logs |-> <<"invalidServerInfo">>,
          threw |-> FALSE]

-----------------------------------------------------------------------------
(* TelemetryReporter: what each create* method hands to the                *)
(* TelemetryEventImpl constructor, or that it raised before it got there   *)

\* a parameter default: used when the argument is undefined
Default(v, d) == IF v = Undef THEN d ELSE v

Plan(eventName, properties, measurements) ==
    [threw |-> FALSE, eventName |-> eventName,
     properties |-> properties, measurements |-> measurements]

Raised == [threw |-> TRUE, eventName |-> "", properties |-> Undef, measurements |-> Undef]

createViewEvent(view) ==
    Plan("view", Lit("view" :> view), Undef)

\* a faulty createActionEvent whose target and source have no default value
createActionEventWithoutDefaults(view, action, target, source, durationInMs) ==
    LET measures == IF durationInMs # Undef /\ durationInMs # Num(0)
                    THEN ("durationInMs" :> durationInMs)
                    ELSE EmptyMap
    IN Plan("action",
            Lit(("view" :> view) @@ ("action" :> action) @@
                ("target" :> target) @@ ("source" :> source)),
            Lit(measures))

createActionEvent(view, action, target, source, durationInMs) ==
    LET measures == IF durationInMs # Undef /\ durationInMs # Num(0)
                    THEN ("durationInMs" :> durationInMs)
                    ELSE EmptyMap
    IN Plan("action",
            Lit(("view" :> view) @@ ("action" :> action) @@
                ("target" :> Default(target, Str(""))) @@
                ("source" :> Default(source, Str("")))),
            Lit(measures))

createMetricsEvent(measurements, groupName) ==
    Plan("metrics", Lit("groupName" :> Default(groupName, Str(""))), measurements)

createErrorEvent(view, name, errorCode, errorType) ==
    Plan("error",
         Lit(("view" :> view) @@ ("name" :> name) @@
             ("errorCode" :> Default(errorCode, Str(""))) @@
             ("errorType" :> Default(errorType, Str("")))),
         Undef)

\* error instanceof Error
IsError(error) == DOMAIN error = {"err"}

\* error?.toString() of a value that is not an Error
ToStringOpt(error) ==
    CASE error = Undef \/ error = Null -> Undef
      [] IsNum(error) -> Str(NumToString(error.num))
      [] OTHER -> error

createErrorEvent2(view, name, error, includeMessage, errorCode, errorType) ==
    LET include == Default(includeMessage, [bool |-> FALSE]) = [bool |-> TRUE]
        props == ("view" :> view) @@ ("name" :> name) @@
                 ("errorCode" :> Default(errorCode, Str(""))) @@
                 ("errorType" :> Default(errorType, Str("")))
    IN IF IsError(error)
       THEN LET message == error.err.message
                stack == IF error.err.stack = Undef THEN "" ELSE error.err.stack.str
            IN IF ~include /\ message # ""
               THEN IF RegExpThrows(message)
                    THEN Raised
                    ELSE Plan("error",
                              Lit(props @@ ("message" :> Str("")) @@
                                  ("stack" :> Str(ReplaceAll(stack, message, RedactionMarker)))),
                              Undef)
               ELSE Plan("error",
                         Lit(props @@ ("message" :> (IF include THEN Str(message) ELSE Str(""))) @@
                             ("stack" :> Str(stack))),
                         Undef)
       ELSE Plan("error",
                 Lit(props @@ ("message" :> (IF include THEN ToStringOpt(error) ELSE Str(""))) @@
                     ("stack" :> Str(""))),
                 Undef)

createTelemetryEvent(eventName, properties, measurements) ==
    Plan(eventName, properties, measurements)

\* the send* methods: the event each one builds before it calls send() on it
sendViewEvent(view) == createViewEvent(view)

sendActionEvent(view, action, target, source, durationInMs) ==
    createActionEvent(view, action, target, source, durationInMs)

\* a faulty sendMetricsEvent that does not pass the group name on:
\* this.createMetricsEvent(measurements).send()
sendMetricsEventWithoutGroup(measurements, groupName) ==
    createMetricsEvent(measurements, Undef)

sendMetricsEvent(measurements, groupName) == createMetricsEvent(measurements, groupName)

sendErrorEvent(view, name, errorCode, errorType) ==
    createErrorEvent(view, name, errorCode, errorType)

\* a faulty sendErrorEvent2 that does not pass includeMessage on:
\* this.createErrorEvent2(view, name, error, undefined, errorCode, errorType).send()
sendErrorEvent2WithoutInclude(view, name, error, includeMessage, errorCode, errorType) ==
    createErrorEvent2(view, name, error, Undef, errorCode, errorType)

sendErrorEvent2(view, name, error, includeMessage, errorCode, errorType) ==
    createErrorEvent2(view, name, error, includeMessage, errorCode, errorType)

sendTelemetryEvent(eventName, properties, measurements) ==
    createTelemetryEvent(eventName, properties, measurements)

\* a faulty constructor whose catch block is empty
constructorWithoutLog(extensionId, transportThrows) ==
    IF transportThrows
    THEN [reporter |-> "undefined", logs |-> <<>>, threw |-> FALSE]
    ELSE [reporter |-> "transport", logs |-> <<>>, threw |-> FALSE]

\* the TelemetryReporter constructor; transportThrows: new VsCodeTelemetryReporter raises
constructor(extensionId, transportThrows) ==
    IF transportThrows
    THEN [reporter |-> "undefined", logs |-> <<"init">>, threw |-> FALSE]
    ELSE [reporter |-> "transport", logs |-> <<>>, threw |-> FALSE]

\* a faulty dispose() without the optional chaining:
\* await this._telemetryReporter.dispose()
disposeWithoutGuard(transport) ==
    IF transport = "undefined"
    THEN [calls |-> 0, threw |-> TRUE]
    ELSE [calls |-> 1, threw |-> FALSE]

\* TelemetryReporter.dispose(): await this._telemetryReporter?.dispose()
dispose(transport) ==
    IF transport = "undefined"
    THEN [calls |-> 0, threw |-> FALSE]
    ELSE [calls |-> 1, threw |-> FALSE]

-----------------------------------------------------------------------------
(* TimedAction *)

\* new TimedAction(reporter, view, action, target, source), start = Date.now()
TimedAction(view, action, target, source, start) ==
    [view |-> view, action |-> action,
     target |-> Default(target, Str("")), source |-> Default(source, Str("")),
     start |-> start, properties |-> EmptyMap, measures |-> EmptyMap]

\* the createActionEvent call of TimedAction.send() when Date.now() is clock
timedActionEvent(ta, clock) ==
    createActionEvent(ta.view, ta.action, ta.source, ta.target, Num(clock - ta.start))

-----------------------------------------------------------------------------
(* More inputs *)

\* (target, source) of createTimedAction
TimedArgs == { <<Undef, Undef>>, <<Str("Button"), Str("Mouse")>> }

Err(message, stack) == [err |-> [message |-> message, stack |-> stack]]

\* (error, includeMessage) of createErrorEvent2 / sendErrorEvent2
ErrorArgs ==
    { <<Err("boom", Str("E: boom@f")), Undef>>,
      <<Err("boom", Str("E: boom@f")), [bool |-> TRUE]>>,
      <<Err("(", Str("E: (@f")), Undef>>,
      <<Err("a+b", Str("E: a+b@f")), Undef>>,
      <<Str("oops"), [bool |-> TRUE]>>,
      <<Undef, [bool |-> TRUE]>>,
      <<Undef, Undef>> }

Obj(m) == [obj |-> m]

\* the argument of withConnectionInfo
ConnectionInfos ==
    { Obj(("authenticationType" :> Str("AAD")) @@ ("providerName" :> Str("MSSQL"))),
      Obj(("authenticationType" :> Str("AAD")) @@ ("providerName" :> Str("MSSQL")) @@
          ("password" :> Str("hunter2"))),
      Obj("providerName" :> Str("PGSQL")),
      Str("not-an-object"),
      [bool |-> FALSE],
      Null }

\* the argument of withServerInfo
ServerInfos ==
    { Obj(("isCloud" :> [bool |-> TRUE]) @@ ("serverVersion" :> Str("16.0")) @@
          ("serverEdition" :> Str("Dev")) @@ ("engineEditionId" :> Num(3)) @@
          ("machineName" :> Str("host1"))),
      Obj("isCloud" :> [bool |-> FALSE]),
      Obj("serverVersion" :> Str("16.0")),
      Undef,
      Num(1),
      Null }

\* (properties, measurements) of createTelemetryEvent / sendTelemetryEvent:
\* omitted, or the objects the caller owns
CustomArgs == { <<Undef, Undef>>, <<Caller, Caller>> }

-----------------------------------------------------------------------------
(* The state machine *)

CreateOps ==
    { "createViewEvent", "createActionEvent", "createMetricsEvent",
      "createErrorEvent", "createErrorEvent2", "createTelemetryEvent" }

NoCall == [eventName |-> "", properties |-> EmptyMap, measurements |-> EmptyMap]

\* a public call: its name, the event or timed action it created or acted on
\* (0: none), its argument, the fields of that event before the call (Undef
\* when it acted on none; for the send() of a timed action, what its send()
\* just before forwarded), whether it raised, the transport calls it made
\* and whether the transport raised in one of them
Op(op, ev, arg, pre, threw, calls, raised) ==
    [op |-> op, ev |-> ev, arg |-> arg, pre |-> pre,
     threw |-> threw, calls |-> calls, raised |-> raised]

\* the contents of an object argument when the call is made
Contents(heap, arg) ==
    IF arg = Undef THEN Undef ELSE IF IsRef(arg) THEN heap[arg.ref] ELSE arg.lit

Given(plan) ==
    [properties |-> Contents(heapP, plan.properties),
     measurements |-> Contents(heapM, plan.measurements)]

\* what a create* or send* call was given: its arguments, and the contents of
\* the property and measurement objects its event starts from
Called(args, plan) ==
    IF plan.threw
    THEN [call |-> args]
    ELSE [call |-> args,
          properties |-> Given(plan).properties,
          measurements |-> Given(plan).measurements]

Props(i) == heapP[events[i].properties]
Measures(i) == heapM[events[i].measurements]
Fields(i) ==
    [eventName |-> events[i].eventName, properties |-> Props(i),
     measurements |-> Measures(i)]

Init ==
    /\ \E env \in Environments :
          /\ userDnsDomain = env.dnsDomain
          /\ commonMeasurements = InitCommonMeasurements(env.dnsDomain)
          /\ commonProperties = InitCommonProperties(env.azdataVersion)
    /\ constructed = FALSE
    /\ transportFailed = FALSE
    /\ telemetryReporter = "undefined"
    /\ callerP0 = CallerProperties
    /\ callerM0 = CallerMeasurements
    /\ heapP = <<callerP0>>
    /\ heapM = <<callerM0>>
    /\ events = <<>>
    /\ timed = <<>>
    /\ now = 0
    /\ sentCount = 0
    /\ lastSent = NoCall
    /\ disposeCalls = 0
    /\ transportDisposed = 0
    /\ log = <<>>
    /\ ops = 0
    /\ last = Op("load", 0, Undef, Undef, FALSE, 0, FALSE)

\* new TelemetryReporter(extensionId, extensionVersion, key)
Constructor ==
    /\ ~constructed
    /\ \E transportThrows \in BOOLEAN :
          LET r == constructor("ext", transportThrows)
          IN /\ transportFailed' = transportThrows
             /\ telemetryReporter' = r.reporter
             /\ log' = log \o r.logs
             /\ last' = Op("constructor", 0, Undef, Undef, r.threw, 0, FALSE)
    /\ constructed' = TRUE
    /\ UNCHANGED <<fixed, commonFields, heapP, heapM, events, timed, now, sentCount, lastSent,
                   disposeCalls, transportDisposed, ops>>

\* a create* method: build the event and keep it
Create(op, args, plan) ==
    /\ constructed
    /\ ops < MaxOps
    /\ Len(events) + Len(timed) < MaxBuilders
    /\ ops' = ops + 1
    /\ IF plan.threw
       THEN /\ UNCHANGED <<commonFields, heapP, heapM, events>>
            /\ last' = Op(op, 0, Called(args, plan), Undef, TRUE, 0, FALSE)
       ELSE LET r == TelemetryEventImpl(heapP, heapM, telemetryReporter,
                                        plan.eventName, plan.properties, plan.measurements)
            IN /\ commonProperties' = r.commonProperties
               /\ commonMeasurements' = r.commonMeasurements
               /\ heapP' = r.heapP
               /\ heapM' = r.heapM
               /\ events' = Append(events, r.ev)
               /\ last' = Op(op, Len(events) + 1, Called(args, plan), Undef, FALSE, 0, FALSE)
    /\ UNCHANGED <<fixed, reporterState, outside, timed, now, disposeCalls, transportDisposed>>

\* a send* method: create*(...).send(); the event is dropped afterwards, and
\* with it the objects only it referred to
SendNow(op, args, plan, transportThrows) ==
    /\ constructed
    /\ ops < MaxOps
    /\ ops' = ops + 1
    /\ IF plan.threw
       THEN /\ UNCHANGED <<commonFields, heapP, heapM, outside>>
            /\ last' = Op(op, 0, Called(args, plan), Undef, TRUE, 0, FALSE)
       ELSE LET r == TelemetryEventImpl(heapP, heapM, telemetryReporter,
                                        plan.eventName, plan.properties, plan.measurements)
                sr == send(r.ev, r.heapP, r.heapM, transportThrows)
            IN /\ commonProperties' = r.commonProperties
               /\ commonMeasurements' = r.commonMeasurements
               /\ heapP' = SubSeq(r.heapP, 1, Len(heapP))
               /\ heapM' = SubSeq(r.heapM, 1, Len(heapM))
               /\ sentCount' = sentCount + sr.calls
               /\ lastSent' = sr.sent
               /\ log' = log \o sr.logs
               /\ last' = Op(op, 0, Called(args, plan), Undef, sr.threw, sr.calls, sr.raised)
    /\ UNCHANGED <<fixed, reporterState, events, timed, now, disposeCalls, transportDisposed>>

CreateViewEvent ==
    Create("createViewEvent", <<View>>, createViewEvent(View))

SendViewEvent ==
    \E x \in BOOLEAN : SendNow("sendViewEvent", <<View>>, sendViewEvent(View), x)

CreateActionEvent ==
    \E a \in ActionArgs :
        Create("createActionEvent", <<View, Action>> \o a,
               createActionEvent(View, Action, a[1], a[2], a[3]))

SendActionEvent ==
    \E a \in ActionArgs, x \in BOOLEAN :
        SendNow("sendActionEvent", <<View, Action>> \o a,
                sendActionEvent(View, Action, a[1], a[2], a[3]), x)

CreateMetricsEvent ==
    \E groupName \in OptionalStrings :
        Create("createMetricsEvent", <<Caller, groupName>>,
               createMetricsEvent(Caller, groupName))

SendMetricsEvent ==
    \E groupName \in OptionalStrings, x \in BOOLEAN :
        SendNow("sendMetricsEvent", <<Caller, groupName>>,
                sendMetricsEvent(Caller, groupName), x)

CreateErrorEvent ==
    \E code \in OptionalStrings :
        Create("createErrorEvent", <<View, Str("failed"), code, Undef>>,
               createErrorEvent(View, Str("failed"), code, Undef))

SendErrorEvent ==
    \E code \in OptionalStrings, x \in BOOLEAN :
        SendNow("sendErrorEvent", <<View, Str("failed"), code, Undef>>,
                sendErrorEvent(View, Str("failed"), code, Undef), x)

CreateErrorEvent2 ==
    \E e \in ErrorArgs :
        Create("createErrorEvent2", <<View, Str("failed"), e[1], e[2], Undef, Undef>>,
               createErrorEvent2(View, Str("failed"), e[1], e[2], Undef, Undef))

SendErrorEvent2 ==
    \E e \in ErrorArgs, x \in BOOLEAN :
        SendNow("sendErrorEvent2", <<View, Str("failed"), e[1], e[2], Undef, Undef>>,
                sendErrorEvent2(View, Str("failed"), e[1], e[2], Undef, Undef), x)

CreateTelemetryEvent ==
    \E c \in CustomArgs :
        Create("createTelemetryEvent", <<Str("custom")>> \o c,
               createTelemetryEvent("custom", c[1], c[2]))

SendTelemetryEvent ==
    \E c \in CustomArgs, x \in BOOLEAN :
        SendNow("sendTelemetryEvent", <<Str("custom")>> \o c,
                sendTelemetryEvent("custom", c[1], c[2]), x)

\* the latest call, when it made event i (with its arguments) or was a
\* send() of event i; Undef otherwise
Preceding(i) ==
    IF last.ev = i /\ last.op \in CreateOps
    THEN [op |-> last.op, call |-> last.arg.call]
    ELSE IF last.ev = i /\ last.op = "send"
         THEN [op |-> "send", call |-> Undef]
         ELSE Undef

\* a faulty send() that empties the event's accumulators once it has
\* forwarded them
SendAndClear(i) ==
    /\ ops < MaxOps
    /\ ops' = ops + 1
    /\ \E transportThrows \in BOOLEAN :
          LET sr == send(events[i], heapP, heapM, transportThrows)
          IN /\ sentCount' = sentCount + sr.calls
             /\ lastSent' = sr.sent
             /\ log' = log \o sr.logs
             /\ last' = Op("send", i, Preceding(i), Fields(i), sr.threw, sr.calls, sr.raised)
    /\ heapP' = [heapP EXCEPT ![events[i].properties] = EmptyMap]
    /\ heapM' = [heapM EXCEPT ![events[i].measurements] = EmptyMap]
    /\ UNCHANGED <<fixed, commonFields, reporterState, events, timed, now, disposeCalls,
                   transportDisposed>>

\* event.send()
Send(i) ==
    /\ ops < MaxOps
    /\ ops' = ops + 1
    /\ \E transportThrows \in BOOLEAN :
          LET sr == send(events[i], heapP, heapM, transportThrows)
          IN /\ sentCount' = sentCount + sr.calls
             /\ lastSent' = sr.sent
             /\ log' = log \o sr.logs
             /\ last' = Op("send", i, Preceding(i), Fields(i), sr.threw, sr.calls, sr.raised)
    /\ UNCHANGED <<fixed, commonFields, reporterState, heapP, heapM, events, timed, now, disposeCalls,
                   transportDisposed>>

\* event.withAdditionalProperties(additionalProperties): an object literal,
\* or the caller's object
WithAdditionalProperties(i) ==
    /\ ops < MaxOps
    /\ ops' = ops + 1
    /\ \E a \in AdditionalProperties \cup { heapP[1] } :
          /\ heapP' = [heapP EXCEPT ![events[i].properties] = withAdditionalProperties(@, a)]
          /\ last' = Op("withAdditionalProperties", i, a, Fields(i), FALSE, 0, FALSE)
    /\ UNCHANGED <<fixed, commonFields, reporterState, outside, heapM, events, timed, now, disposeCalls,
                   transportDisposed>>

\* event.withAdditionalMeasurements(additionalMeasurements)
WithAdditionalMeasurements(i) ==
    /\ ops < MaxOps
    /\ ops' = ops + 1
    /\ \E a \in AdditionalMeasurements \cup { heapM[1] } :
          /\ heapM' = [heapM EXCEPT ![events[i].measurements] =
                                     withAdditionalMeasurements(@, a)]
          /\ last' = Op("withAdditionalMeasurements", i, a, Fields(i), FALSE, 0, FALSE)
    /\ UNCHANGED <<fixed, commonFields, reporterState, outside, heapP, events, timed, now, disposeCalls,
                   transportDisposed>>

\* event.withConnectionInfo(connectionInfo)
WithConnectionInfo(i) ==
    /\ ops < MaxOps
    /\ ops' = ops + 1
    /\ \E connectionInfo \in ConnectionInfos :
          LET r == withConnectionInfo(Props(i), connectionInfo)
          IN /\ heapP' = [heapP EXCEPT ![events[i].properties] = r.props]
             /\ log' = log \o r.logs
             /\ last' = Op("withConnectionInfo", i, connectionInfo, Fields(i),
                           r.threw, 0, FALSE)
    /\ UNCHANGED <<fixed, commonFields, reporterState, sentCount, lastSent, heapM, events, timed, now,
                   disposeCalls, transportDisposed>>

\* event.withServerInfo(serverInfo)
WithServerInfo(i) ==
    /\ ops < MaxOps
    /\ ops' = ops + 1
    /\ \E serverInfo \in ServerInfos :
          LET r == withServerInfo(Props(i), serverInfo)
          IN /\ heapP' = [heapP EXCEPT ![events[i].properties] = r.props]
             /\ log' = log \o r.logs
             /\ last' = Op("withServerInfo", i, serverInfo, Fields(i), r.threw, 0, FALSE)
    /\ UNCHANGED <<fixed, commonFields, reporterState, sentCount, lastSent, heapM, events, timed, now,
                   disposeCalls, transportDisposed>>

\* reporter.createTimedAction(view, action, target, source)
CreateTimedAction ==
    /\ constructed
    /\ ops < MaxOps
    /\ Len(events) + Len(timed) < MaxBuilders
    /\ ops' = ops + 1
    /\ \E a \in TimedArgs :
          /\ timed' = Append(timed, TimedAction(View, Action, a[1], a[2], now))
          /\ last' = Op("createTimedAction", Len(timed) + 1, a, Undef, FALSE, 0, FALSE)
    /\ UNCHANGED <<fixed, commonFields, reporterState, outside, heapP, heapM, events, now, disposeCalls,
                   transportDisposed>>

\* timedAction.withAdditionalProperties(additionalProperties)
TimedWithAdditionalProperties(j) ==
    /\ ops < MaxOps
    /\ ops' = ops + 1
    /\ \E a \in AdditionalProperties \cup { heapP[1] } :
          /\ timed' = [timed EXCEPT ![j].properties = ObjectAssign(@, a)]
          /\ last' = Op("TimedAction.withAdditionalProperties", j, a, Undef,
                        FALSE, 0, FALSE)
    /\ UNCHANGED <<fixed, commonFields, reporterState, outside, heapP, heapM, events, now, disposeCalls,
                   transportDisposed>>

\* timedAction.withAdditionalMeasures(additionalMeasurements)
TimedWithAdditionalMeasures(j) ==
    /\ ops < MaxOps
    /\ ops' = ops + 1
    /\ \E a \in AdditionalMeasurements \cup { heapM[1] } :
          /\ timed' = [timed EXCEPT ![j].measures = ObjectAssign(@, a)]
          /\ last' = Op("TimedAction.withAdditionalMeasures", j, a, Undef,
                        FALSE, 0, FALSE)
    /\ UNCHANGED <<fixed, commonFields, reporterState, outside, heapP, heapM, events, now, disposeCalls,
                   transportDisposed>>

\* what the send() of timed action j just before the coming call forwarded,
\* when the latest call is such a send(); Undef otherwise
SentBefore(j) ==
    IF last.op = "TimedAction.send" /\ last.ev = j /\ last.calls = 1
    THEN lastSent
    ELSE Undef

\* a faulty TimedAction.send() that starts the timer again once it has sent:
\* this.start = Date.now()
TimedSendRestartingTimer(j) ==
    /\ ops < MaxOps
    /\ ops' = ops + 1
    /\ \E delay \in 0..MaxDelay, transportThrows \in BOOLEAN :
          LET ta == timed[j]
              plan == timedActionEvent(ta, now + delay)
              r == TelemetryEventImpl(heapP, heapM, telemetryReporter,
                                      plan.eventName, plan.properties, plan.measurements)
              hP == [r.heapP EXCEPT ![r.ev.properties] =
                                   withAdditionalProperties(@, ta.properties)]
              hM == [r.heapM EXCEPT ![r.ev.measurements] =
                                   withAdditionalMeasurements(@, ta.measures)]
              sr == send(r.ev, hP, hM, transportThrows)
          IN /\ now' = now + delay
             /\ timed' = [timed EXCEPT ![j].start = now + delay]
             /\ heapP' = SubSeq(hP, 1, Len(heapP))
             /\ heapM' = SubSeq(hM, 1, Len(heapM))
             /\ sentCount' = sentCount + sr.calls
             /\ lastSent' = sr.sent
             /\ log' = log \o sr.logs
             /\ last' = Op("TimedAction.send", j, Num(now + delay - ta.start),
                           SentBefore(j), sr.threw, sr.calls, sr.raised)
    /\ UNCHANGED <<fixed, commonFields, reporterState, events, disposeCalls, transportDisposed>>

\* a faulty TimedAction.send() that lets the fields of the Action event win
\* over the accumulated ones: Object.assign({}, this.properties, event.properties)
TimedSendEventOverLocal(j) ==
    /\ ops < MaxOps
    /\ ops' = ops + 1
    /\ \E delay \in 0..MaxDelay, transportThrows \in BOOLEAN :
          LET ta == timed[j]
              plan == timedActionEvent(ta, now + delay)
              r == TelemetryEventImpl(heapP, heapM, telemetryReporter,
                                      plan.eventName, plan.properties, plan.measurements)
              hP == [r.heapP EXCEPT ![r.ev.properties] = ObjectAssign(ta.properties, @)]
              hM == [r.heapM EXCEPT ![r.ev.measurements] = ObjectAssign(ta.measures, @)]
              sr == send(r.ev, hP, hM, transportThrows)
          IN /\ now' = now + delay
             /\ heapP' = SubSeq(hP, 1, Len(heapP))
             /\ heapM' = SubSeq(hM, 1, Len(heapM))
             /\ sentCount' = sentCount + sr.calls
             /\ lastSent' = sr.sent
             /\ log' = log \o sr.logs
             /\ last' = Op("TimedAction.send", j, Num(now + delay - ta.start),
                           SentBefore(j), sr.threw, sr.calls, sr.raised)
    /\ UNCHANGED <<fixed, commonFields, reporterState, events, timed, disposeCalls, transportDisposed>>

\* timedAction.send(), delay milliseconds after the clock was last read:
\* createActionEvent(...).withAdditionalProperties(this.properties)
\*     .withAdditionalMeasurements(this.measures).send()
TimedSend(j) ==
    /\ ops < MaxOps
    /\ ops' = ops + 1
    /\ \E delay \in 0..MaxDelay, transportThrows \in BOOLEAN :
          LET ta == timed[j]
              plan == timedActionEvent(ta, now + delay)
              r == TelemetryEventImpl(heapP, heapM, telemetryReporter,
                                      plan.eventName, plan.properties, plan.measurements)
              hP == [r.heapP EXCEPT ![r.ev.properties] =
                                   withAdditionalProperties(@, ta.properties)]
              hM == [r.heapM EXCEPT ![r.ev.measurements] =
                                   withAdditionalMeasurements(@, ta.measures)]
              sr == send(r.ev, hP, hM, transportThrows)
          IN /\ now' = now + delay
             /\ commonProperties' = r.commonProperties
             /\ commonMeasurements' = r.commonMeasurements
             /\ heapP' = SubSeq(hP, 1, Len(heapP))
             /\ heapM' = SubSeq(hM, 1, Len(heapM))
             /\ sentCount' = sentCount + sr.calls
             /\ lastSent' = sr.sent
             /\ log' = log \o sr.logs
             /\ last' = Op("TimedAction.send", j, Num(now + delay - ta.start),
                           SentBefore(j), sr.threw, sr.calls, sr.raised)
    /\ UNCHANGED <<fixed, reporterState, events, timed, disposeCalls, transportDisposed>>

\* a faulty dispose() that builds a transport when it finds none, to have
\* something to flush
DisposeRenewsTransport ==
    /\ constructed
    /\ ops < MaxOps
    /\ ops' = ops + 1
    /\ telemetryReporter' = "transport"
    /\ disposeCalls' = disposeCalls + 1
    /\ transportDisposed' = transportDisposed + 1
    /\ last' = Op("dispose", 0, Undef, Undef, FALSE, 0, FALSE)
    /\ UNCHANGED <<fixed, commonFields, constructed, transportFailed, outside, heapP, heapM,
                   events, timed, now>>

\* reporter.dispose()
Dispose ==
    /\ constructed
    /\ ops < MaxOps
    /\ ops' = ops + 1
    /\ LET r == dispose(telemetryReporter)
       IN /\ disposeCalls' = disposeCalls + 1
          /\ transportDisposed' = transportDisposed + r.calls
          /\ last' = Op("dispose", 0, Undef, Undef, r.threw, 0, FALSE)
    /\ UNCHANGED <<fixed, commonFields, reporterState, outside, heapP, heapM, events, timed, now>>

Next ==
    \/ Constructor
    \/ CreateViewEvent
    \/ SendViewEvent
    \/ CreateActionEvent
    \/ SendActionEvent
    \/ CreateMetricsEvent
    \/ SendMetricsEvent
    \/ CreateErrorEvent
    \/ SendErrorEvent
    \/ CreateErrorEvent2
    \/ SendErrorEvent2
    \/ CreateTelemetryEvent
    \/ SendTelemetryEvent
    \/ \E i \in 1..Len(events) : Send(i)
    \/ \E i \in 1..Len(events) : WithAdditionalProperties(i)
    \/ \E i \in 1..Len(events) : WithAdditionalMeasurements(i)
    \/ \E i \in 1..Len(events) : WithConnectionInfo(i)
    \/ \E i \in 1..Len(events) : WithServerInfo(i)
    \/ CreateTimedAction
    \/ \E j \in 1..Len(timed) : TimedWithAdditionalProperties(j)
    \/ \E j \in 1..Len(timed) : TimedWithAdditionalMeasures(j)
    \/ \E j \in 1..Len(timed) : TimedSend(j)
    \/ Dispose

Spec == Init /\ [][Next]_vars

-----------------------------------------------------------------------------
(* Properties *)

\* the send* methods of the reporter
SendNowOps ==
    { "sendViewEvent", "sendActionEvent", "sendMetricsEvent",
      "sendErrorEvent", "sendErrorEvent2", "sendTelemetryEvent" }

\* every operation that sends
SendOps == SendNowOps \cup { "send", "TimedAction.send" }

Degraded == constructed /\ telemetryReporter = "undefined"

LogCount(kind) == Cardinality({ n \in 1..Len(log) : log[n] = kind })

\* an optional map argument as a map
MapOf(x) == IF x = Undef THEN EmptyMap ELSE x

\* map m holds, under every key of map over, the value over gives it
Holds(m, over) == \A k \in DOMAIN over : k \in DOMAIN m /\ m[k] = over[k]

\* C1: when the transport's sendTelemetryEvent raises during event.send(),
\* send() returns normally, the failure is logged, and the event's name,
\* properties and measurements are what they were before the call.
C1_SendSwallowsTransportFailure ==
    (last.op = "send" /\ last.raised) =>
        /\ ~last.threw
        /\ Len(log) > 0 /\ log[Len(log)] = "send"
        /\ Fields(last.ev) = last.pre

C1_Witness ==
    /\ last.op = "send"
    /\ last.raised
    /\ last.calls = 1
    /\ log[Len(log)] = "send"

\* C2: on a reporter whose transport is absent, no sending operation
\* (send() of an event, a send* method, TimedAction.send()) raises, and none
\* calls the transport.
C2_DegradedSendNeverThrows ==
    (Degraded /\ last.op \in SendOps) =>
        /\ ~last.threw
        /\ last.calls = 0
        /\ sentCount = 0

\* C3: no public operation of the reporter, of an event or of a timed action
\* lets a failure reach its caller.
C3_NoOperationThrows == ~last.threw

\* C4: when the construction of the transport fails, the constructor returns
\* normally, the reporter has no transport, and the console holds exactly one
\* line about the failure, whatever is called afterwards.
C4_ConstructionFailureLoggedOnce ==
    (constructed /\ transportFailed) =>
        /\ last.op = "constructor" => ~last.threw
        /\ telemetryReporter = "undefined"
        /\ LogCount("init") = 1

C4_Witness ==
    /\ transportFailed
    /\ ops >= 2
    /\ last.op \in SendOps
    /\ LogCount("init") = 1

\* C5: a reporter without a transport never gets one: no step takes it from
\* Degraded to Active.
C5_DegradedStaysDegraded ==
    [][Degraded => telemetryReporter' = "undefined"]_vars

C5_Witness ==
    /\ Degraded
    /\ ops >= 2
    /\ disposeCalls >= 1
    /\ last.op \in SendOps

\* C6: dispose() never raises, the second call on the same reporter included,
\* and on a reporter without a transport it does nothing.
C6_DisposeIsSafe ==
    /\ last.op = "dispose" => ~last.threw
    /\ Degraded => transportDisposed = 0

C6_Witness ==
    /\ Degraded
    /\ last.op = "dispose"
    /\ disposeCalls = 2

\* C7: every event handed to the transport holds the common fields: the
\* measurement common.msftInternal and, when the host's version is known, the
\* property common.adsversion; an event sent by a send* method holds them
\* with the common values.
C7_SentEventsHoldCommonFields ==
    sentCount > 0 =>
        /\ "common.msftInternal" \in DOMAIN lastSent.measurements
        /\ DOMAIN commonProperties \subseteq DOMAIN lastSent.properties
        /\ (last.op \in SendNowOps /\ last.calls = 1) =>
              /\ Holds(lastSent.properties, commonProperties)
              /\ Holds(lastSent.measurements, commonMeasurements)

C7_Witness ==
    /\ last.op = "send"
    /\ last.calls = 1
    /\ "authenticationType" \in DOMAIN lastSent.properties
    /\ "common.adsversion" \in DOMAIN lastSent.properties
    /\ "common.msftInternal" \in DOMAIN lastSent.measurements

\* C8 as written: a field given to a create* or send* method, or added by an
\* enrichment call, under the key of a common field is the value of that key
\* in the event that is sent.
C8_ExplicitFieldsTakePrecedence ==
    /\ (last.op \in SendNowOps /\ last.calls = 1) =>
          /\ Holds(lastSent.properties, MapOf(last.arg.properties))
          /\ Holds(lastSent.measurements, MapOf(last.arg.measurements))
    /\ last.op = "withAdditionalProperties" => Holds(Props(last.ev), last.arg)
    /\ last.op = "withAdditionalMeasurements" => Holds(Measures(last.ev), last.arg)

\* C8 as the code has it: a field given to a create* or send* method under
\* the key of a common field is overwritten by the common value; a field
\* added by withAdditionalProperties or withAdditionalMeasurements, or kept by
\* a timed action until its send(), takes precedence over the common value,
\* and send() forwards the fields the event holds when it is called.
C8_CommonOverGivenEnrichmentOverCommon ==
    /\ (last.op \in CreateOps /\ ~last.threw) =>
          /\ Holds(Props(last.ev), commonProperties)
          /\ Holds(Measures(last.ev), commonMeasurements)
    /\ (last.op \in SendNowOps /\ last.calls = 1) =>
          /\ Holds(lastSent.properties, commonProperties)
          /\ Holds(lastSent.measurements, commonMeasurements)
    /\ last.op = "withAdditionalProperties" => Holds(Props(last.ev), last.arg)
    /\ last.op = "withAdditionalMeasurements" => Holds(Measures(last.ev), last.arg)
    /\ (last.op = "send" /\ last.calls = 1) => lastSent = last.pre
    /\ (last.op = "TimedAction.send" /\ last.calls = 1) =>
          /\ Holds(lastSent.properties, timed[last.ev].properties)
          /\ Holds(lastSent.measurements, timed[last.ev].measures)

C8_Witness ==
    /\ last.op = "send"
    /\ last.calls = 1
    /\ lastSent.eventName = "custom"
    /\ "common.adsversion" \in DOMAIN commonProperties
    /\ callerP0["common.adsversion"] # commonProperties["common.adsversion"]
    /\ lastSent.properties["common.adsversion"] = commonProperties["common.adsversion"]
    /\ lastSent.measurements["common.msftInternal"] = Num(9)

\* C9: the maps the caller owns hold after every operation what they held
\* before the first.
C9_CallerMapsNeverMutated ==
    /\ heapP[1] = callerP0
    /\ heapM[1] = callerM0

ConnectionFields == { "authenticationType", "providerName" }

IsObj(x) == DOMAIN x = {"obj"}

\* C10: withConnectionInfo on an object adds authenticationType and
\* providerName to the properties and nothing else: the other properties and
\* the measurements are what they were, no other field of the input appears,
\* and every input with the same two fields gives the same properties.
C10_ConnectionInfoAllowList ==
    (last.op = "withConnectionInfo" /\ IsObj(last.arg)) =>
        LET pre == last.pre.properties
            post == Props(last.ev)
        IN /\ ~last.threw
           /\ DOMAIN post = DOMAIN pre \cup ConnectionFields
           /\ \A k \in DOMAIN pre \ ConnectionFields : post[k] = pre[k]
           /\ \A f \in ConnectionFields : post[f] = Field(last.arg, f)
           /\ Measures(last.ev) = last.pre.measurements
           /\ \A other \in ConnectionInfos :
                 (/\ IsObj(other)
                  /\ \A f \in ConnectionFields : Field(other, f) = Field(last.arg, f))
                 => withConnectionInfo(pre, other).props = post

C10_Witness ==
    /\ last.op = "withConnectionInfo"
    /\ IsObj(last.arg)
    /\ "password" \in DOMAIN last.arg.obj
    /\ "password" \notin DOMAIN Props(last.ev)
    /\ Props(last.ev)["authenticationType"] = Str("AAD")

\* C11: withConnectionInfo and withServerInfo given something that is not an
\* object (a string, a number, a boolean, undefined, null) log a diagnostic,
\* leave the event's properties and measurements as they were and do not
\* raise.
C11_MalformedInfoLoggedAndIgnored ==
    (last.op \in { "withConnectionInfo", "withServerInfo" } /\ ~IsObj(last.arg)) =>
        /\ ~last.threw
        /\ Fields(last.ev) = last.pre
        /\ Len(log) > 0
        /\ log[Len(log)] = (IF last.op = "withConnectionInfo"
                            THEN "invalidConnectionInfo" ELSE "invalidServerInfo")

\* C12: createErrorEvent2 given an Error with a non-empty message, and
\* includeMessage false or omitted, returns an event whose message property
\* is empty and whose stack property has no literal occurrence of the
\* message.
C12_MessageRedactedFromStack ==
    (/\ last.op = "createErrorEvent2"
     /\ IsError(last.arg.call[3])
     /\ last.arg.call[4] # [bool |-> TRUE]
     /\ last.arg.call[3].err.message # "") =>
        /\ ~last.threw
        /\ Props(last.ev)["message"] = Str("")
        /\ ~Contains(Props(last.ev)["stack"].str, last.arg.call[3].err.message)

\* map after is map before with the fields of map given written over it:
\* every key of given holds given's value, every other key of before is kept
\* with its value, and there is no other key
Overwritten(before, given, after) ==
    /\ DOMAIN after = DOMAIN before \cup DOMAIN given
    /\ \A k \in DOMAIN given : after[k] = given[k]
    /\ \A k \in DOMAIN before \ DOMAIN given : after[k] = before[k]

\* C13: each withAdditionalProperties (withAdditionalMeasurements) call
\* leaves every key it supplies with the value it gives, and every other key
\* the event held, from creation or from an earlier call, with the value it
\* had; so after a sequence of calls each key holds the value of the latest
\* call that supplied it.
C13_LaterEnrichmentOverwrites ==
    /\ last.op = "withAdditionalProperties" =>
          /\ Overwritten(last.pre.properties, last.arg, Props(last.ev))
          /\ Measures(last.ev) = last.pre.measurements
    /\ last.op = "withAdditionalMeasurements" =>
          /\ Overwritten(last.pre.measurements, last.arg, Measures(last.ev))
          /\ Props(last.ev) = last.pre.properties

C13_Witness ==
    /\ last.op = "withAdditionalProperties"
    /\ "k" \in DOMAIN last.pre.properties
    /\ last.pre.properties["k"] = Str("b")
    /\ "k" \in DOMAIN last.arg
    /\ last.arg["k"] = Str("a")
    /\ Props(last.ev)["k"] = Str("a")
    /\ "view" \in DOMAIN Props(last.ev)
    /\ Props(last.ev)["view"] = View

\* C14: send() clears nothing: the event holds after it what it held before,
\* what it forwards is what the event holds when it is called (so after an
\* enrichment, the enriched fields), and a send() that directly follows a
\* send() of the same event forwards the same name, properties and
\* measurements once more.
C14_SendKeepsAndResendsState ==
    [][(last'.op = "send" /\ ops' = ops + 1) =>
          /\ events' = events /\ heapP' = heapP /\ heapM' = heapM
          /\ last'.calls = 1 =>
                /\ sentCount' = sentCount + 1
                /\ lastSent' = Fields(last'.ev)
          /\ (last.op = "send" /\ last.ev = last'.ev /\ last.calls = 1) =>
                /\ last'.calls = 1
                /\ lastSent' = lastSent]_vars

C14_Witness ==
    /\ last.op = "send"
    /\ last.arg # Undef
    /\ last.arg.op = "send"
    /\ last.calls = 1
    /\ sentCount = 2
    /\ lastSent = Fields(last.ev)

\* C15: the event a timed action sends carries a duration measurement, and
\* its value is the time elapsed from the construction of the timed action
\* to the send().
C15_TimedActionSendsElapsedTime ==
    (last.op = "TimedAction.send" /\ last.calls = 1) =>
        /\ "durationInMs" \in DOMAIN lastSent.measurements
        /\ IsNum(lastSent.measurements["durationInMs"])
        /\ lastSent.measurements["durationInMs"].num >= now - timed[last.ev].start

\* C16: the event a timed action sends is an action event with the view,
\* action, target and source the timed action was created with, target and
\* source being the empty string when omitted.
C16_TimedActionKeepsTargetAndSource ==
    (last.op = "TimedAction.send" /\ last.calls = 1) =>
        /\ lastSent.eventName = "action"
        /\ lastSent.properties["view"] = timed[last.ev].view
        /\ lastSent.properties["action"] = timed[last.ev].action
        /\ lastSent.properties["target"] = timed[last.ev].target
        /\ lastSent.properties["source"] = timed[last.ev].source

Active == constructed /\ telemetryReporter = "transport"

\* C18 as written: sendMetricsEvent(m, g) forwards one event named "metrics"
\* with the property groupName = g, the empty string when g is omitted, and
\* with every key of m holding the value m gives it.
C18_MetricsEventCarriesAllOfM ==
    (last.op = "sendMetricsEvent" /\ Active) =>
        /\ last.calls = 1
        /\ lastSent.eventName = "metrics"
        /\ lastSent.properties["groupName"] = Default(last.arg.call[2], Str(""))
        /\ Holds(lastSent.measurements, last.arg.measurements)

\* C18 as the code has it: on a reporter with a transport,
\* sendMetricsEvent(m, g) forwards one event named "metrics" with the
\* property groupName = g, the empty string when g is omitted; every key of m
\* that is not the key of a common measurement holds the value m gives it,
\* and a key of m that is the key of a common measurement holds the common
\* value.
C18_MetricsEventCarriesMUnderCommon ==
    (last.op = "sendMetricsEvent" /\ Active) =>
        /\ last.calls = 1
        /\ lastSent.eventName = "metrics"
        /\ lastSent.properties["groupName"] = Default(last.arg.call[2], Str(""))
        /\ \A k \in DOMAIN last.arg.measurements :
              /\ k \in DOMAIN lastSent.measurements
              /\ lastSent.measurements[k] =
                    IF k \in DOMAIN commonMeasurements
                    THEN commonMeasurements[k]
                    ELSE last.arg.measurements[k]

C18_Witness ==
    /\ last.op = "sendMetricsEvent"
    /\ last.calls = 1
    /\ last.arg.call[2] = Str("G")
    /\ lastSent.properties["groupName"] = Str("G")
    /\ lastSent.measurements["n"] = Num(7)
    /\ last.arg.measurements["common.msftInternal"] = Num(7)
    /\ lastSent.measurements["common.msftInternal"] # Num(7)

\* the event a create* method builds from the arguments of a call
CreatePlan(kind, call) ==
    CASE kind = "View" -> createViewEvent(call[1])
      [] kind = "Action" -> createActionEvent(call[1], call[2], call[3], call[4], call[5])
      [] kind = "Metrics" -> createMetricsEvent(call[1], call[2])
      [] kind = "Error" -> createErrorEvent(call[1], call[2], call[3], call[4])
      [] kind = "Error2" ->
            createErrorEvent2(call[1], call[2], call[3], call[4], call[5], call[6])
      [] kind = "Telemetry" -> createTelemetryEvent(call[1].str, call[2], call[3])

\* the event the send* method of the same kind builds from them
SendPlan(kind, call) ==
    CASE kind = "View" -> sendViewEvent(call[1])
      [] kind = "Action" -> sendActionEvent(call[1], call[2], call[3], call[4], call[5])
      [] kind = "Metrics" -> sendMetricsEvent(call[1], call[2])
      [] kind = "Error" -> sendErrorEvent(call[1], call[2], call[3], call[4])
      [] kind = "Error2" ->
            sendErrorEvent2(call[1], call[2], call[3], call[4], call[5], call[6])
      [] kind = "Telemetry" -> sendTelemetryEvent(call[1].str, call[2], call[3])

\* "createViewEvent" and "sendViewEvent" are of kind "View", and so on
KindOf(op) ==
    CASE op \in { "createViewEvent", "sendViewEvent" } -> "View"
      [] op \in { "createActionEvent", "sendActionEvent" } -> "Action"
      [] op \in { "createMetricsEvent", "sendMetricsEvent" } -> "Metrics"
      [] op \in { "createErrorEvent", "sendErrorEvent" } -> "Error"
      [] op \in { "createErrorEvent2", "sendErrorEvent2" } -> "Error2"
      [] op \in { "createTelemetryEvent", "sendTelemetryEvent" } -> "Telemetry"

\* what send() forwards of the event built from plan by a reporter whose
\* transport is the given one
Forwarded(plan, transport) ==
    LET r == TelemetryEventImpl(heapP, heapM, transport,
                                plan.eventName, plan.properties, plan.measurements)
    IN send(r.ev, r.heapP, r.heapM, FALSE)

\* C19: a send* call and the create* call of the same kind with the same
\* arguments followed by send() do the same to the transport: both raise
\* before reaching it, or both make no call (no transport), or both make one
\* sendTelemetryEvent call with the same name, properties and measurements.
C19_SendIsCreateThenSend ==
    /\ (last.op \in SendNowOps) =>
          LET plan == CreatePlan(KindOf(last.op), last.arg.call)
          IN IF plan.threw
             THEN last.threw /\ last.calls = 0
             ELSE /\ ~last.threw
                  /\ last.calls = Forwarded(plan, telemetryReporter).calls
                  /\ last.calls = 1 => lastSent = Forwarded(plan, telemetryReporter).sent
    /\ (last.op \in CreateOps /\ last.threw) =>
          SendPlan(KindOf(last.op), last.arg.call).threw
    /\ (last.op = "send" /\ last.arg # Undef /\ last.arg.op \in CreateOps) =>
          LET plan == SendPlan(KindOf(last.arg.op), last.arg.call)
          IN /\ ~plan.threw
             /\ last.calls = Forwarded(plan, telemetryReporter).calls
             /\ last.calls = 1 => lastSent = Forwarded(plan, telemetryReporter).sent

C19_Witness ==
    /\ last.op = "send"
    /\ last.arg # Undef
    /\ last.arg.op = "createErrorEvent2"
    /\ last.arg.call[4] = [bool |-> TRUE]
    /\ last.calls = 1
    /\ lastSent.properties["message"] = Str("boom")

\* the value a created event holds for an optional string argument: the
\* argument, or the empty string when it was omitted
OrEmpty(v) == IF v = Undef THEN Str("") ELSE v

\* C20: a created action event holds target and source, and a created error
\* event errorCode and errorType, as given, or as the empty string when
\* omitted; an action event created without a duration has no duration
\* measurement.
C20_OmittedArgumentsDefault ==
    /\ (last.op = "createActionEvent" /\ ~last.threw) =>
          /\ Props(last.ev)["target"] = OrEmpty(last.arg.call[3])
          /\ Props(last.ev)["source"] = OrEmpty(last.arg.call[4])
          /\ last.arg.call[5] = Undef => "durationInMs" \notin DOMAIN Measures(last.ev)
    /\ (last.op = "createErrorEvent" /\ ~last.threw) =>
          /\ Props(last.ev)["errorCode"] = OrEmpty(last.arg.call[3])
          /\ Props(last.ev)["errorType"] = OrEmpty(last.arg.call[4])
    /\ (last.op = "createErrorEvent2" /\ ~last.threw) =>
          /\ Props(last.ev)["errorCode"] = OrEmpty(last.arg.call[5])
          /\ Props(last.ev)["errorType"] = OrEmpty(last.arg.call[6])

C20_Witness ==
    /\ last.op = "createActionEvent"
    /\ last.arg.call[3] = Undef
    /\ last.arg.call[5] = Undef
    /\ Props(last.ev)["target"] = Str("")
    /\ Props(last.ev)["source"] = Str("")
    /\ "durationInMs" \notin DOMAIN Measures(last.ev)

-----------------------------------------------------------------------------
(* C21: the internal-network guess *)

\* s ends with suffix
EndsWith(s, suffix) ==
    /\ Len(suffix) <= Len(s)
    /\ SubSeq(s, Len(s) - Len(suffix) + 1, Len(s)) = suffix

\* the value of common.msftInternal for a guess
Guess(internal) == IF internal THEN Num(1) ELSE Num(0)

\* USERDNSDOMAIN is set and not empty
DomainSet == userDnsDomain # Undef /\ userDnsDomain # Str("")

\* C21 as stated: the guess is true exactly when USERDNSDOMAIN is set and,
\* case-insensitively, ends with an entry of the list of internal domains; it
\* is false when the variable is unset or empty.
C21_InternalWhenSuffixMatches ==
    commonMeasurements["common.msftInternal"] =
        Guess(/\ DomainSet
              /\ \E msftDomain \in msftInternalDomains :
                    EndsWith(toLowerCase(userDnsDomain.str), msftDomain))

\* C21 amended: the guess is true exactly when USERDNSDOMAIN is set and,
\* case-insensitively, equals an entry of the list of internal domains; a
\* domain that merely ends with a listed name is not internal, and the guess
\* is false when the variable is unset or empty.
C21_InternalWhenDomainListed ==
    commonMeasurements["common.msftInternal"] =
        Guess(/\ DomainSet
              /\ toLowerCase(userDnsDomain.str) \in msftInternalDomains)

\* an event sent from a machine in a sub-domain of a listed domain carries
\* the guess 0
C21_Witness ==
    /\ userDnsDomain = Str("Sub.Ddnet.Microsoft.com")
    /\ sentCount > 0
    /\ "common.msftInternal" \in DOMAIN lastSent.measurements
    /\ lastSent.measurements["common.msftInternal"] = Num(0)

-----------------------------------------------------------------------------
(* C22: the common fields after module load *)

\* C22: no call (construction, create*, an enrichment, send, dispose, on any
\* event or timed action) changes the common property map or the common
\* measurement map.
C22_CommonFieldsNeverChange ==
    [][/\ commonProperties' = commonProperties
       /\ commonMeasurements' = commonMeasurements]_vars

\* an event was created, its copy of common.adsversion was overwritten by an
\* enrichment and it was sent with the new value, while the common property
\* map still holds the version read at module load
C22_Witness ==
    /\ last.op = "send"
    /\ last.calls = 1
    /\ "common.adsversion" \in DOMAIN lastSent.properties
    /\ lastSent.properties["common.adsversion"] = Str("own")
    /\ commonProperties = InitCommonProperties(Str("1.40"))
    /\ commonMeasurements = InitCommonMeasurements(userDnsDomain)

-----------------------------------------------------------------------------
(* C23: withServerInfo *)

ServerFields == { "connectionType", "serverVersion", "serverEdition", "serverEngineEdition" }

\* the field of the input a server property is read from
ServerInput(f) ==
    CASE f = "serverVersion" -> "serverVersion"
      [] f = "serverEdition" -> "serverEdition"
      [] f = "serverEngineEdition" -> "engineEditionId"

\* C23: withServerInfo on an object sets exactly the four server properties:
\* connectionType is "Azure" for a true cloud flag, "Standalone" for a false
\* one and "" when the flag is absent; serverVersion, serverEdition and
\* serverEngineEdition are the input's serverVersion, serverEdition and
\* engineEditionId, or "" when absent; no other property changes and no
\* other field of the input appears.
C23_ServerInfoSetsFourProperties ==
    (last.op = "withServerInfo" /\ IsObj(last.arg)) =>
        LET pre == last.pre.properties
            post == Props(last.ev)
            given == last.arg.obj
        IN /\ ~last.threw
           /\ DOMAIN post = DOMAIN pre \cup ServerFields
           /\ \A k \in DOMAIN pre \ ServerFields : post[k] = pre[k]
           /\ post["connectionType"] =
                 (IF "isCloud" \notin DOMAIN given THEN Str("")
                  ELSE IF given["isCloud"] = [bool |-> TRUE] THEN Str("Azure")
                  ELSE Str("Standalone"))
           /\ \A f \in ServerFields \ {"connectionType"} :
                 post[f] = (IF ServerInput(f) \in DOMAIN given
                            THEN given[ServerInput(f)] ELSE Str(""))

\* the full description of a cloud server went in: the four properties are
\* set from it and its machineName is not on the event
C23_Witness ==
    /\ last.op = "withServerInfo"
    /\ IsObj(last.arg)
    /\ "machineName" \in DOMAIN last.arg.obj
    /\ "machineName" \notin DOMAIN Props(last.ev)
    /\ Props(last.ev)["connectionType"] = Str("Azure")
    /\ Props(last.ev)["serverEngineEdition"] = Num(3)
    /\ Props(last.ev)["serverVersion"] = Str("16.0")

-----------------------------------------------------------------------------
(* C24: TimedAction accumulates locally and merges on send() *)

\* m with the entries of over written over it
Overridden(m, over) ==
    [k \in DOMAIN m \cup DOMAIN over |-> IF k \in DOMAIN over THEN over[k] ELSE m[k]]

\* C24: withAdditionalProperties / withAdditionalMeasures of a timed action
\* add their argument to the timed action's own maps and do nothing else: no
\* event is created, no event changes and the transport is not called.
\* send() forwards the Action event built at that moment with the
\* accumulated properties and measures written over its own.
C24_TimedActionAccumulatesThenMerges ==
    [][/\ (last'.op = "TimedAction.withAdditionalProperties") =>
             /\ timed'[last'.ev].properties =
                    Overridden(timed[last'.ev].properties, last'.arg)
             /\ timed'[last'.ev].measures = timed[last'.ev].measures
             /\ UNCHANGED <<events, heapP, heapM, sentCount, lastSent>>
       /\ (last'.op = "TimedAction.withAdditionalMeasures") =>
             /\ timed'[last'.ev].measures =
                    Overridden(timed[last'.ev].measures, last'.arg)
             /\ timed'[last'.ev].properties = timed[last'.ev].properties
             /\ UNCHANGED <<events, heapP, heapM, sentCount, lastSent>>
       /\ (last'.op = "TimedAction.send" /\ last'.calls = 1) =>
             LET ta == timed[last'.ev]
                 own == Forwarded(timedActionEvent(ta, now'), telemetryReporter).sent
             IN /\ sentCount' = sentCount + 1
                /\ lastSent'.eventName = "action"
                /\ lastSent'.properties = Overridden(own.properties, ta.properties)
                /\ lastSent'.measurements = Overridden(own.measurements, ta.measures)
      ]_vars

\* a timed action that accumulated its own common.adsversion was sent: the
\* event carries that value, not the version read at module load
C24_Witness ==
    /\ last.op = "TimedAction.send"
    /\ last.calls = 1
    /\ timed[last.ev].properties = ("common.adsversion" :> Str("own"))
    /\ commonProperties = InitCommonProperties(Str("1.40"))
    /\ lastSent.properties["common.adsversion"] = Str("own")
    /\ lastSent.properties["view"] = View

-----------------------------------------------------------------------------
(* C25: createErrorEvent2 *)

\* String(v): the string form of a value
StringForm(v) ==
    CASE v = Undef -> "undefined"
      [] v = Null -> "null"
      [] IsNum(v) -> NumToString(v.num)
      [] OTHER -> v.str

\* C25: createErrorEvent2 given an Error and includeMessage true returns an
\* event whose message is the error's message and whose stack is the error's
\* stack as it is; given a value that is not an Error it returns an event
\* whose stack is "" and whose message is the string form of the value when
\* includeMessage is true and "" otherwise; in every case it returns an event
\* named "error" with the view, name, errorCode and errorType it was given
\* ("" for an omitted code or type).
C25_ErrorEvent2MessageAndStack ==
    (last.op = "createErrorEvent2") =>
        LET error == last.arg.call[3]
            include == last.arg.call[4] = [bool |-> TRUE]
        IN /\ ~last.threw
           /\ events[last.ev].eventName = "error"
           /\ Props(last.ev)["view"] = last.arg.call[1]
           /\ Props(last.ev)["name"] = last.arg.call[2]
           /\ Props(last.ev)["errorCode"] = OrEmpty(last.arg.call[5])
           /\ Props(last.ev)["errorType"] = OrEmpty(last.arg.call[6])
           /\ (IsError(error) /\ include) =>
                 /\ Props(last.ev)["message"] = Str(error.err.message)
                 /\ Props(last.ev)["stack"] = error.err.stack
           /\ ~IsError(error) =>
                 /\ Props(last.ev)["stack"] = Str("")
                 /\ Props(last.ev)["message"] =
                       (IF include THEN Str(StringForm(error)) ELSE Str(""))

-----------------------------------------------------------------------------
(* C26: a duration of 0 *)

\* C26: an action event created with a numeric duration, 0 included, holds
\* that number as its durationInMs measurement; and every event a timed
\* action sends, also one sent in the millisecond the timed action was
\* created, has a durationInMs measurement.
C26_SuppliedDurationIsCarried ==
    /\ (last.op = "createActionEvent" /\ IsNum(last.arg.call[5])) =>
          /\ "durationInMs" \in DOMAIN Measures(last.ev)
          /\ Measures(last.ev)["durationInMs"] = last.arg.call[5]
    /\ (last.op = "TimedAction.send" /\ last.calls = 1) =>
          "durationInMs" \in DOMAIN lastSent.measurements

-----------------------------------------------------------------------------
(* C27: two events of one reporter *)

\* the enrichment methods of an event
EnrichOps ==
    { "withAdditionalProperties", "withAdditionalMeasurements",
      "withConnectionInfo", "withServerInfo" }

\* C27: an enrichment call on one event changes nothing of what any other
\* event of the reporter forwards to the transport (its name, properties and
\* measurements), also when both events were created from the same map of
\* the caller.
C27_EventsAreIsolated ==
    [][\A i \in 1..Len(events) :
          (last'.op \in EnrichOps /\ last'.ev # i) => Fields(i)' = Fields(i)]_vars

-----------------------------------------------------------------------------
(* C28: the types of the forwarded values *)

\* C28: in every event forwarded to the transport every property value is a
\* string and every measurement value is a number, whatever create* and
\* enrichment calls built the event.
C28_ForwardedValuesAreTyped ==
    (last.op \in SendOps /\ last.calls = 1) =>
        /\ \A k \in DOMAIN lastSent.properties : IsStr(lastSent.properties[k])
        /\ \A k \in DOMAIN lastSent.measurements : IsNum(lastSent.measurements[k])

-----------------------------------------------------------------------------
(* C29: what an enrichment call may change *)

\* maps before and after agree outside the keys in allowed: the same keys
\* there, with the same values
SameOutside(before, after, allowed) ==
    /\ DOMAIN before \ allowed = DOMAIN after \ allowed
    /\ \A k \in DOMAIN before \ allowed : after[k] = before[k]

\* C29: withAdditionalProperties, withConnectionInfo and withServerInfo leave
\* the event's name and measurements as they were; withAdditionalMeasurements
\* leaves the name and the properties as they were; withConnectionInfo and
\* withServerInfo change no property other than their own two and four keys,
\* whatever their argument.
C29_EnrichmentFootprint ==
    /\ (last.op \in { "withAdditionalProperties", "withConnectionInfo", "withServerInfo" }) =>
          /\ events[last.ev].eventName = last.pre.eventName
          /\ Measures(last.ev) = last.pre.measurements
    /\ (last.op = "withAdditionalMeasurements") =>
          /\ events[last.ev].eventName = last.pre.eventName
          /\ Props(last.ev) = last.pre.properties
    /\ (last.op = "withConnectionInfo") =>
          SameOutside(last.pre.properties, Props(last.ev), ConnectionFields)
    /\ (last.op = "withServerInfo") =>
          SameOutside(last.pre.properties, Props(last.ev), ServerFields)

\* a custom event made from the caller's maps took the description of a
\* cloud server: its own property and its measurements are as before
C29_Witness ==
    /\ last.op = "withServerInfo"
    /\ IsObj(last.arg)
    /\ "machineName" \in DOMAIN last.arg.obj
    /\ events[last.ev].eventName = "custom"
    /\ Props(last.ev)["connectionType"] = Str("Azure")
    /\ "connectionType" \notin DOMAIN last.pre.properties
    /\ "k" \in DOMAIN Props(last.ev)
    /\ Props(last.ev)["k"] = Str("a")
    /\ "n" \in DOMAIN Measures(last.ev)
    /\ Measures(last.ev)["n"] = Num(7)

-----------------------------------------------------------------------------
(* C30: calls of the transport *)

\* the name a create* method gives its event
NameOf(op, call) ==
    CASE op = "createViewEvent" -> "view"
      [] op = "createActionEvent" -> "action"
      [] op = "createMetricsEvent" -> "metrics"
      [] op \in { "createErrorEvent", "createErrorEvent2" } -> "error"
      [] op = "createTelemetryEvent" -> call[1].str

\* the calls that build or enrich an event or a timed action
BuildOps ==
    CreateOps \cup EnrichOps \cup
    { "createTimedAction", "TimedAction.withAdditionalProperties",
      "TimedAction.withAdditionalMeasures" }

\* C30: on a reporter that has a transport, each send() of an event calls
\* the transport's sendTelemetryEvent exactly once, under the name the event
\* got when it was created: "view", "action", "metrics", "error", or the
\* name the caller chose; no call changes the name of an event; and the
\* create* and enrichment calls do not call the transport.
C30_SendCallsTransportOnce ==
    [][/\ (last'.op \in CreateOps /\ ~last'.threw) =>
             events'[last'.ev].eventName = NameOf(last'.op, last'.arg.call)
       /\ \A i \in 1..Len(events) :
             /\ i \in 1..Len(events')
             /\ events'[i].eventName = events[i].eventName
       /\ (last'.op = "send" /\ Active) =>
             /\ last'.calls = 1
             /\ sentCount' = sentCount + 1
             /\ lastSent'.eventName = events[last'.ev].eventName
       /\ (last'.op \in BuildOps) =>
             /\ last'.calls = 0
             /\ sentCount' = sentCount
             /\ lastSent' = lastSent
      ]_vars

\* a custom event was sent with the transport raising: after three calls the
\* transport was called once in all, under the caller's name
C30_Witness ==
    /\ Active
    /\ last.op = "send"
    /\ last.raised
    /\ events[last.ev].eventName = "custom"
    /\ sentCount = 1
    /\ ops = 3
    /\ lastSent.eventName = "custom"

====
